---------------------------- MODULE Spec2Model ----------------------------
(***************************************************************************)
(* The SMTP connection handler of pkg/server/smtp/handler.go: the session  *)
(* state machine (GREET, READY, MAIL, DATA, QUIT), its command and         *)
(* envelope parsers, the data phase and the worker's accounting.           *)
(*                                                                         *)
(* A wire line is a sequence of one-character strings, so that the         *)
(* parsers work on bytes as the Go code does.  A step of a worker runs     *)
(* from one blocking read to the next.                                     *)
(***************************************************************************)
EXTENDS Integers, Sequences, FiniteSets, TLC

(***************************************************************************)
(* Bytes and strings                                                       *)
(***************************************************************************)
LowerChars ==
  <<"a","b","c","d","e","f","g","h","i","j","k","l","m",
    "n","o","p","q","r","s","t","u","v","w","x","y","z">>

UpperChars ==
  <<"A","B","C","D","E","F","G","H","I","J","K","L","M",
    "N","O","P","Q","R","S","T","U","V","W","X","Y","Z">>

Digits == <<"0","1","2","3","4","5","6","7","8","9">>

Range(f) == { f[i] : i \in DOMAIN f }

LowerSet == Range(LowerChars)

\* the bytes of the regexp class \w
WordChars == Range(LowerChars) \cup Range(UpperChars) \cup Range(Digits) \cup {"_"}

\* the bytes of the regexp class \s
SpaceChars == {" ", "\t", "\n", "\f", "\r"}

UpperOf == [c \in LowerSet |-> UpperChars[CHOOSE i \in DOMAIN LowerChars : LowerChars[i] = c]]

\* strings.ToUpper on one byte
UpperChar(c) == IF c \in LowerSet THEN UpperOf[c] ELSE c

\* strings.ToUpper
ToUpper(s) == [i \in DOMAIN s |-> UpperChar(s[i])]

IsWord(c) == c \in WordChars

\* s[from..to] as a sequence of its own (Go s[from-1:to])
Slice(s, from, to) == IF from > to THEN <<>> ELSE SubSeq(s, from, to)

\* strings.TrimRight(s, cutset)
RECURSIVE TrimRight(_, _)
TrimRight(s, cutset) ==
  IF s # <<>> /\ s[Len(s)] \in cutset
    THEN TrimRight(SubSeq(s, 1, Len(s) - 1), cutset)
    ELSE s

\* strings.TrimLeft(s, cutset)
RECURSIVE TrimLeft(_, _)
TrimLeft(s, cutset) ==
  IF s # <<>> /\ s[1] \in cutset THEN TrimLeft(Tail(s), cutset) ELSE s

\* a strings.Trim that trims the left side only
TrimLeftOnly(s, cutset) == TrimLeft(s, cutset)

\* strings.Trim(s, cutset)
Trim(s, cutset) == TrimLeft(TrimRight(s, cutset), cutset)

\* strings.IndexRune(s, c), 1-based; 0 when c is not in s
IndexRune(s, c) ==
  IF \E i \in DOMAIN s : s[i] = c
    THEN CHOOSE i \in DOMAIN s : s[i] = c /\ \A j \in 1..(i - 1) : s[j] # c
    ELSE 0

\* the last index of c in s; 0 when c is not in s
LastIndex(s, c) ==
  IF \E i \in DOMAIN s : s[i] = c
    THEN CHOOSE i \in DOMAIN s : s[i] = c /\ \A j \in (i + 1)..Len(s) : s[j] # c
    ELSE 0

(***************************************************************************)
(* The recognised verbs                                                    *)
(***************************************************************************)
HELO == <<"H","E","L","O">>
EHLO == <<"E","H","L","O">>
MAILc == <<"M","A","I","L">>
RCPT == <<"R","C","P","T">>
DATAc == <<"D","A","T","A">>
RSET == <<"R","S","E","T">>
SEND == <<"S","E","N","D">>
SOML == <<"S","O","M","L">>
SAML == <<"S","A","M","L">>
VRFY == <<"V","R","F","Y">>
EXPN == <<"E","X","P","N">>
HELP == <<"H","E","L","P">>
NOOP == <<"N","O","O","P">>
QUITc == <<"Q","U","I","T">>
TURN == <<"T","U","R","N">>

\* a command table without HELP
commandsWithoutHelp ==
  {HELO, EHLO, MAILc, RCPT, DATAc, RSET, SEND, SOML, SAML, VRFY, EXPN,
   NOOP, QUITc, TURN}

commands ==
  {HELO, EHLO, MAILc, RCPT, DATAc, RSET, SEND, SOML, SAML, VRFY, EXPN,
   HELP, NOOP, QUITc, TURN}

(***************************************************************************)
(* Command and envelope parsers                                            *)
(***************************************************************************)
\* Session.parseCmd: (cmd, arg, ok)
parseCmd(rawline) ==
  LET line == TrimRight(rawline, {"\r", "\n"})
      l == Len(line)
  IN  IF l = 0 THEN [cmd |-> <<>>, arg |-> <<>>, ok |-> TRUE]
      ELSE IF l < 4 THEN [cmd |-> <<>>, arg |-> <<>>, ok |-> FALSE]
      ELSE IF l = 4 THEN [cmd |-> ToUpper(line), arg |-> <<>>, ok |-> TRUE]
      ELSE IF l = 5 THEN [cmd |-> <<>>, arg |-> <<>>, ok |-> FALSE]
      ELSE IF line[5] # " " THEN [cmd |-> <<>>, arg |-> <<>>, ok |-> FALSE]
      ELSE [cmd |-> ToUpper(SubSeq(line, 1, 4)),
            arg |-> Trim(Slice(line, 6, l), {" "}),
            ok |-> TRUE]

\* parseHelloArgument: (domain, ok)
parseHelloArgument(arg) ==
  LET idx == IndexRune(arg, " ")
      domain == IF idx >= 1 THEN Slice(arg, 1, idx - 1) ELSE arg
  IN  [domain |-> domain, ok |-> domain # <<>>]

\* the address alternatives of the MAIL regexp: (?:\\>|[^>])+ or "[^"]+"@[^>]+
MatchAddr(g) ==
  \/ /\ g # <<>>
     /\ \A i \in DOMAIN g : g[i] = ">" => (i > 1 /\ g[i - 1] = "\\")
  \/ \E q \in 3..Len(g) :
       /\ g[1] = "\""
       /\ g[q] = "\""
       /\ \A i \in 2..(q - 1) : g[i] # "\""
       /\ q + 2 <= Len(g)
       /\ g[q + 1] = "@"
       /\ \A i \in (q + 2)..Len(g) : g[i] # ">"

\* the parameter group of the MAIL regexp: ( [\w= ]+)?
MatchParams(t) ==
  \/ t = <<>>
  \/ /\ Len(t) >= 2
     /\ t[1] = " "
     /\ \A i \in 2..Len(t) : IsWord(t[i]) \/ t[i] \in {"=", " "}

\* the MAIL regexp of readyHandler,
\*   (?i)^FROM:\s*<((?:\\>|[^>])+|"[^"]+"@[^>]+)>( [\w= ]+)?$
\* as (ok, m1, m2).  The parameter group holds no '>', so the closing '>' is
\* the last one of the argument.
MatchMailFrom(arg) ==
  LET rest == IF Len(arg) >= 5 THEN TrimLeft(Slice(arg, 6, Len(arg)), SpaceChars)
              ELSE <<>>
      close == LastIndex(rest, ">")
      g == Slice(rest, 2, close - 1)
      t == Slice(rest, close + 1, Len(rest))
      ok == /\ Len(arg) >= 5
            /\ ToUpper(SubSeq(arg, 1, 5)) = <<"F","R","O","M",":">>
            /\ rest # <<>>
            /\ rest[1] = "<"
            /\ close >= 2
            /\ MatchAddr(g)
            /\ MatchParams(t)
  IN  IF ok THEN [ok |-> TRUE, m1 |-> g, m2 |-> t]
      ELSE [ok |-> FALSE, m1 |-> <<>>, m2 |-> <<>>]

\* the length of the longest run of \w bytes of s starting at index i
RECURSIVE WordRun(_, _)
WordRun(s, i) ==
  IF i <= Len(s) /\ IsWord(s[i]) THEN 1 + WordRun(s, i + 1) ELSE 0

\* regexp ` (\w+)=(\w+)` matched at index i of s: the index after the match,
\* or 0 when there is no match at i
ArgMatchEnd(s, i) ==
  LET k == WordRun(s, i + 1)
      v == WordRun(s, i + k + 2)
  IN  IF /\ i <= Len(s)
         /\ s[i] = " "
         /\ k >= 1
         /\ i + k + 1 <= Len(s)
         /\ s[i + k + 1] = "="
         /\ v >= 1
        THEN i + k + 2 + v
        ELSE 0

\* FindAllStringSubmatch of ` (\w+)=(\w+)` from index i on: the matches, left
\* to right and not overlapping, each as (key uppercased, value)
RECURSIVE FindArgs(_, _)
FindArgs(s, i) ==
  IF i > Len(s) THEN <<>>
  ELSE LET e == ArgMatchEnd(s, i)
           k == WordRun(s, i + 1)
       IN  IF e = 0 THEN FindArgs(s, i + 1)
           ELSE <<[key |-> ToUpper(SubSeq(s, i + 1, i + k)),
                   val |-> SubSeq(s, i + k + 2, e - 1)]>> \o FindArgs(s, e)

\* args[key] of the map parseArgs builds: the value of the last match with
\* that key, "" when there is none
ArgValue(pm, key) ==
  LET idx == { i \in DOMAIN pm : pm[i].key = key }
  IN  IF idx = {} THEN <<>>
      ELSE pm[CHOOSE i \in idx : \A j \in idx : j <= i].val

\* Session.parseArgs: (ok, matches)
parseArgs(arg) ==
  LET pm == FindArgs(arg, 1)
  IN  [ok |-> pm # <<>>, pm |-> pm]

DigitValue(c) == (CHOOSE i \in DOMAIN Digits : Digits[i] = c) - 1

RECURSIVE DecimalValue(_)
DecimalValue(s) ==
  IF s = <<>> THEN 0
  ELSE 10 * DecimalValue(SubSeq(s, 1, Len(s) - 1)) + DigitValue(s[Len(s)])

\* the decimal digits of the largest signed 32-bit integer
MaxInt32Digits == <<"2","1","4","7","4","8","3","6","4","7">>

\* a <= b for two digit strings of the same length
DigitsLeq(a, b) ==
  \/ a = b
  \/ \E i \in DOMAIN a :
       /\ \A j \in 1..(i - 1) : a[j] = b[j]
       /\ DigitValue(a[i]) < DigitValue(b[i])

\* strconv.ParseInt(s, 10, 32) on a string of \w bytes: (ok, value); a value
\* out of the 32-bit range is an error
ParseInt32(s) ==
  LET digits == s # <<>> /\ \A i \in DOMAIN s : s[i] \in Range(Digits)
      sig == IF digits THEN TrimLeft(s, {"0"}) ELSE <<>>
      inRange == \/ Len(sig) < Len(MaxInt32Digits)
                 \/ Len(sig) = Len(MaxInt32Digits) /\ DigitsLeq(sig, MaxInt32Digits)
  IN  IF digits /\ inRange
        THEN [ok |-> TRUE, value |-> DecimalValue(sig)]
        ELSE [ok |-> FALSE, value |-> 0]

(***************************************************************************)
(* Configuration of the server and size of the model                       *)
(***************************************************************************)
\* Server.maxMessageBytes
maxMessageBytes == 6

\* Server.maxRecips
maxRecips == 2

\* the connections the listener may accept
NumWorkers == 2

\* the largest value of the received-total counter the model follows
MaxReceivedTotal == 2

Workers == 1..NumWorkers

\* what a send can do: succeed, or fail (setting the write deadline or writing)
SendResults == {"ok", "fail"}

\* the outcomes of n sends
NetOutcomes(n) == [1..n -> SendResults]

\* the network answering every send of a step with success
AllOk == [i \in 1..3 |-> "ok"]

\* what a failed read returns: the peer closed, the idle deadline passed,
\* another net.Error, an error that is no net.Error
ReadErrors == {"EOF", "timeout", "neterr", "other"}

\* what the address policy answers for an address: an error, a recipient to
\* store, a recipient to accept and discard
PolicyOutcomes == {"err", "store", "nostore"}

(***************************************************************************)
(* Lines a client may send                                                 *)
(***************************************************************************)
LineHelo == <<"H","E","L","O"," ","a","\r","\n">>

LineHeloOther == <<"H","E","L","O"," ","b","\r","\n">>

LineEhlo == <<"e","h","l","o"," ","a"," ","c","\r","\n">>

LineHeloNoArg == <<"H","E","L","O","\r","\n">>

LineMail == <<"M","A","I","L"," ","F","R","O","M",":","<","a","@","b",">","\r","\n">>

LineMailLower == <<"m","a","i","l"," ","f","r","o","m",":"," ","<","a","@","b",">","\r","\n">>

LineMailEmpty == <<"M","A","I","L"," ","F","R","O","M",":","<",">","\r","\n">>

LineRcpt == <<"R","C","P","T"," ","T","O",":","<","a","@","b",">","\r","\n">>

LineRcptLower == <<"r","c","p","t"," ","t","o",":","a","@","b","\r","\n">>

LineRcptShort == <<"R","C","P","T"," ","x","\r","\n">>

LineData == <<"D","A","T","A","\r","\n">>

LineDataArg == <<"D","A","T","A"," ","x","\r","\n">>

LineRset == <<"R","S","E","T","\r","\n">>

LineQuit == <<"q","u","i","t","\r","\n">>

LineNoop == <<"N","O","O","P","\r","\n">>

LineEmpty == <<"\r","\n">>

LineShort == <<"H","I","\r","\n">>

LineUnknown == <<"A","B","C","D","\r","\n">>

LineVrfy == <<"V","R","F","Y"," ","a","\r","\n">>

LineSend == <<"S","E","N","D","\r","\n">>

LineSoml == <<"s","o","m","l","\r","\n">>

LineSaml == <<"S","A","M","L","\r","\n">>

LineExpn == <<"E","X","P","N"," ","a","\r","\n">>

LineHelp == <<"H","E","L","P","\r","\n">>

LineTurn == <<"T","U","R","N","\r","\n">>

LineMailTrail == <<"M","A","I","L"," ","F","R","O","M",":","<","a","@","b",">"," ","\r","\n">>

LineMailWord == <<"M","A","I","L"," ","F","R","O","M",":","<","a","@","b",">"," ","x","\r","\n">>

\* n in decimal, as a client writes it
RECURSIVE Itoa(_)
Itoa(n) ==
  IF n < 10 THEN <<Digits[n + 1]>>
  ELSE Itoa(n \div 10) \o <<Digits[(n % 10) + 1]>>

\* the MAIL command of a client that announces a message of the size written
\* in digits
MailSizeLine(digits) ==
  <<"M","A","I","L"," ","F","R","O","M",":","<","a","@","b",">"," ","S","I","Z","E","=">> \o digits \o <<"\r","\n">>

\* the limit announced, and one byte more
LineMailSizeMax == MailSizeLine(Itoa(maxMessageBytes))

LineMailSizeOver == MailSizeLine(Itoa(maxMessageBytes + 1))

\* the largest 32-bit size announced, and one byte more
LineMailSizeInt32 == MailSizeLine(MaxInt32Digits)

LineMailSizeHuge == MailSizeLine(<<"2","1","4","7","4","8","3","6","4","8">>)

SizeLines == {LineMailSizeMax, LineMailSizeOver, LineMailSizeInt32, LineMailSizeHuge}

DataText == <<"a","b","\r","\n">>

DataDotDot == <<".",".","\r","\n">>

DataEnd == <<".","\r","\n">>

DataEndLF == <<".","\n">>

CommandLines ==
  {LineHelo, LineEhlo, LineHeloNoArg, LineMail, LineMailLower, LineMailEmpty, LineRcpt, LineRcptLower, LineRcptShort, LineData, LineDataArg, LineRset, LineQuit, LineNoop, LineEmpty, LineShort, LineUnknown,
   LineVrfy, LineSend, LineSoml, LineSaml, LineExpn, LineHelp, LineTurn,
   LineMailTrail, LineMailWord, LineHeloOther} \cup SizeLines

DataLines ==
  {DataText, DataDotDot, DataEnd, DataEndLF}


\* the lines of a client that keeps to the plain dialogue
PlainCommandLines ==
  {LineHelo, LineMail, LineRcpt, LineData, LineQuit}

PlainDataLines ==
  {DataEnd}

\* the lines of a client that only leaves
ShortCommandLines ==
  {LineQuit}

\* the connections the listener accepts under scenario sc
Conns(sc) == IF sc \in {"single", "live"} THEN {1} ELSE Workers

\* the command lines the client of worker w may send under scenario sc
ClientCommands(sc, w) ==
  IF sc = "single" THEN CommandLines
  ELSE IF w = 1 THEN PlainCommandLines
  ELSE ShortCommandLines

\* the lines the client of worker w may send in the data phase
ClientData(sc, w) ==
  IF sc = "single" THEN DataLines
  ELSE IF sc = "live" THEN PlainDataLines \cup {DataText}
  ELSE PlainDataLines

\* the line with which a client ends its payload
endsPayload(line) == line \in {DataEnd, DataEndLF}

\* the lines the client of worker w may send next: payload lines up to its
\* terminator once it has begun a payload, command lines otherwise
ClientLines(sc, w, inPayload) ==
  IF inPayload THEN ClientData(sc, w) ELSE ClientCommands(sc, w)

(***************************************************************************)
(* The session                                                             *)
(***************************************************************************)
VARIABLES
  cfg,                \* the scenario: which connections arrive, what clients send
  pc,                 \* where each worker is
  sess,               \* each worker's Session
  msgBuf,             \* each worker's msgBuf while it is in dataHandler
  waitgroup,          \* Server.waitgroup
  expConnectsCurrent, \* the live-connections gauge
  expReceivedTotal,   \* the received-total counter
  closes,             \* how often each worker has closed its socket
  dones,              \* how often each worker has called waitgroup.Done
  decs,               \* how often each worker has decremented the gauge
  payload,            \* whether each client is inside a payload it has not ended
  ev                  \* the last step: who, what was read, sent and delivered

vars ==
  <<cfg, pc, sess, msgBuf, waitgroup, expConnectsCurrent, expReceivedTotal,
    closes, dones, decs, payload, ev>>

\* NewSession
NewSession ==
  [state |-> "GREET", remoteDomain |-> <<>>, sendError |-> "nil",
   from |-> <<>>, recipients |-> <<>>]

\* the running state of one step of a worker: its session, the replies it has
\* sent, the outcomes the network holds for its next sends, whether it left
\* the command loop, its message buffer, whether dataHandler goes on reading,
\* the Deliver calls it made, how far it raised the received-total counter
\* and what the policy answered if it was asked
Ctx(s, net, buf) ==
  [ss |-> s, out |-> <<>>, net |-> net, brk |-> FALSE, msgBuf |-> buf,
   inData |-> TRUE, delivers |-> <<>>, received |-> 0, asked |-> ""]

\* Session.enterState
enterState(c, state) == [c EXCEPT !.ss.state = state]

\* Session.send: each reply is kept with its outcome and with the sendError
\* the session held when send was called
send(c, code, text) ==
  LET res == Head(c.net)
  IN  [c EXCEPT !.out = Append(@, [code |-> code, text |-> text, res |-> res,
                                   prior |-> c.ss.sendError]),
                !.ss.sendError = IF res = "ok" THEN @ ELSE "err",
                !.net = Tail(@)]

\* the policy is called and answers pol
askPolicy(c, pol) == [c EXCEPT !.asked = pol]

\* a reset that also forgets the HELO domain
resetForgetsDomain(c) ==
  [c EXCEPT !.ss.state = "READY", !.ss.from = <<>>, !.ss.recipients = <<>>,
            !.ss.remoteDomain = <<>>]

\* a reset that forgets to drop the recipients
resetKeepsRecipients(c) == [c EXCEPT !.ss.state = "READY", !.ss.from = <<>>]

\* Session.reset
reset(c) ==
  [c EXCEPT !.ss.state = "READY", !.ss.from = <<>>, !.ss.recipients = <<>>]

\* an ooSeq that answers 500
ooSeqGarbled(c, cmd) == send(c, 500, "Syntax error, command garbled")

\* an ooSeq that logs and sends nothing
ooSeqSilent(c, cmd) == c

\* Session.ooSeq
ooSeq(c, cmd) == send(c, 503, "Command %v is out of sequence")

\* Session.greet
greet(c) == send(c, 220, "%v Inbucket SMTP ready")

\* Session.greetHandler
greetHandler(c, cmd, arg) ==
  LET p == parseHelloArgument(arg)
      c1 == [c EXCEPT !.ss.remoteDomain = p.domain]
  IN  IF cmd = HELO THEN
        IF ~p.ok THEN send(c, 501, "Domain/address argument required for HELO")
        ELSE enterState(send(c1, 250, "Great, let's get this show on the road"),
                        "READY")
      ELSE IF cmd = EHLO THEN
        IF ~p.ok THEN send(c, 501, "Domain/address argument required for EHLO")
        ELSE enterState(
               send(send(send(c1, 250, "-Great, let's get this show on the road"),
                         250, "-8BITMIME"),
                    250, "SIZE %v"),
               "READY")
      ELSE ooSeq(c, cmd)

\* ESMTP parameters that are never looked at
MailParamsIgnored(m2) == [code |-> 0, text |-> ""]

\* readyHandler, lines 276-296: the reply that rejects the ESMTP parameters
\* m2, code 0 when they are accepted
MailParamsReject(m2) ==
  LET a == parseArgs(m2)
      size == ArgValue(a.pm, <<"S","I","Z","E">>)
      n == ParseInt32(size)
  IN  IF m2 = <<>> THEN [code |-> 0, text |-> ""]
      ELSE IF ~a.ok
        THEN [code |-> 501, text |-> "Unable to parse MAIL ESMTP parameters"]
      ELSE IF size = <<>> THEN [code |-> 0, text |-> ""]
      ELSE IF ~n.ok
        THEN [code |-> 501, text |-> "Unable to parse SIZE as an integer"]
      ELSE IF n.value > maxMessageBytes
        THEN [code |-> 552, text |-> "Max message size exceeded"]
      ELSE [code |-> 0, text |-> ""]

\* Session.readyHandler; pol is the answer of policy.ParseEmailAddress
readyHandler(c, cmd, arg, pol) ==
  LET m == MatchMailFrom(arg)
      rej == MailParamsReject(m.m2)
  IN  IF cmd = MAILc THEN
        IF ~m.ok
          THEN send(c, 501, "Was expecting MAIL arg syntax of FROM:<address>")
        ELSE IF pol = "err"
          THEN send(askPolicy(c, pol), 501, "Bad sender address syntax")
        ELSE IF rej.code # 0 THEN send(askPolicy(c, pol), rej.code, rej.text)
        ELSE enterState(send([askPolicy(c, pol) EXCEPT !.ss.from = m.m1],
                             250, "Roger, accepting mail from <%v>"),
                        "MAIL")
      ELSE ooSeq(c, cmd)

\* the recipient limit tested with > for >=
atRecipientLimitOffByOne(c) == Len(c.ss.recipients) > maxRecips

\* mailHandler, line 323: the recipient limit is reached
atRecipientLimit(c) == Len(c.ss.recipients) >= maxRecips

\* the test for recipients with >= for >
hasRecipientsAlways(c) == Len(c.ss.recipients) >= 0

\* mailHandler, line 338: the envelope has recipients
hasRecipients(c) == Len(c.ss.recipients) > 0

\* Session.mailHandler; pol is the answer of policy.NewRecipient, a pointer to
\* a new Recipient: id tells the recipients of one envelope apart
mailHandler(c, cmd, arg, pol) ==
  LET addr == Trim(Slice(arg, 4, Len(arg)), {"<", ">", " "})
      recip == [id |-> Len(c.ss.recipients) + 1, addr |-> addr,
                store |-> (pol = "store")]
  IN  IF cmd = RCPT THEN
        IF Len(arg) < 4 \/ ToUpper(SubSeq(arg, 1, 3)) # <<"T","O",":">>
          THEN send(c, 501, "Was expecting RCPT arg syntax of TO:<address>")
        ELSE IF pol = "err"
          THEN send(askPolicy(c, pol), 501, "Bad recipient address syntax")
        ELSE IF atRecipientLimit(c)
          THEN send(askPolicy(c, pol), 552, "Maximum limit of %v recipients reached")
        ELSE send([askPolicy(c, pol) EXCEPT !.ss.recipients = Append(@, recip)],
                  250, "I'll make sure <%v> gets this")
      ELSE IF cmd = DATAc THEN
        IF arg # <<>>
          THEN send(c, 501, "DATA command should not have any arguments")
        ELSE IF hasRecipients(c) THEN enterState(c, "DATA")
        ELSE ooSeq(c, cmd)
      ELSE ooSeq(c, cmd)

\* Server.startSession, lines 133-186: one line read in the command loop
commandStep(c, line, pol) ==
  LET p == parseCmd(line)
      cmd == p.cmd
      arg == p.arg
  IN  IF ~p.ok THEN send(c, 500, "Syntax error, command garbled")
      ELSE IF cmd = <<>> THEN send(c, 500, "Speak up")
      ELSE IF cmd \notin commands
        THEN send(c, 500, "Syntax error, %v command unrecognized")
      ELSE IF cmd \in {SEND, SOML, SAML, EXPN, HELP, TURN}
        THEN send(c, 502, "%v command not implemented")
      ELSE IF cmd = VRFY
        THEN send(c, 252, "Cannot VRFY user, but will accept message")
      ELSE IF cmd = NOOP THEN send(c, 250, "I have sucessfully done nothing")
      ELSE IF cmd = RSET THEN send(reset(c), 250, "Session reset")
      ELSE IF cmd = QUITc
        THEN enterState(send(c, 221, "Goodnight and good luck"), "QUIT")
      ELSE IF c.ss.state = "GREET" THEN greetHandler(c, cmd, arg)
      ELSE IF c.ss.state = "READY" THEN readyHandler(c, cmd, arg, pol)
      ELSE IF c.ss.state = "MAIL" THEN mailHandler(c, cmd, arg, pol)
      ELSE [c EXCEPT !.brk = TRUE]

\* Server.startSession, lines 187-209: readLine returned an error
readError(c, err) ==
  IF err = "EOF" THEN [c EXCEPT !.brk = TRUE]
  ELSE IF err = "timeout"
    THEN [send(c, 221, "Idle timeout, bye bye") EXCEPT !.brk = TRUE]
  ELSE [send(c, 221, "Connection error, sorry") EXCEPT !.brk = TRUE]

\* dataHandler returns
leaveData(c) == [c EXCEPT !.inData = FALSE]

\* every recipient is delivered to
ShouldStoreAll(recip) == TRUE

\* dataHandler, line 370: recip.ShouldStore()
ShouldStore(recip) == recip.store

\* the counter raised inside the ShouldStore branch only
countReceivedStored(c, recip) ==
  IF recip.store THEN [c EXCEPT !.received = @ + 1] ELSE c

\* dataHandler, line 385: expReceivedTotal.Add(1), for a recipient that was
\* delivered to or was not to be stored
countReceived(c, recip) == [c EXCEPT !.received = @ + 1]

\* the size limit tested with >= for >
overMaxSizeOffByOne(buf) == Len(buf) >= maxMessageBytes

\* dataHandler, line 397: the buffer is over the limit
overMaxSize(buf) == Len(buf) > maxMessageBytes

\* Session.dataHandler, lines 369-390: the recipients from the i-th on;
\* Deliver fails for the failAt-th recipient (for none when failAt = 0) and
\* the loop never calls it past its first failure
RECURSIVE deliverLoop(_, _, _)
deliverLoop(c, i, failAt) ==
  IF i > Len(c.ss.recipients)
    THEN leaveData(reset(send(c, 250, "Mail accepted for delivery")))
  ELSE
    LET recip == c.ss.recipients[i]
        call == [recip |-> recip, from |-> c.ss.from,
                 recipients |-> c.ss.recipients,
                 prefix |-> [from |-> c.ss.remoteDomain, for |-> recip.addr],
                 body |-> c.msgBuf, ok |-> (i # failAt)]
        c1 == [c EXCEPT !.delivers = Append(@, call)]
    IN  IF ShouldStore(recip) THEN
          IF i = failAt
            THEN leaveData(reset(send(c1, 451, "Failed to store message for %v")))
            ELSE deliverLoop(countReceived(c1, recip), i + 1, failAt)
        ELSE deliverLoop(countReceived(c, recip), i + 1, failAt)

\* Session.dataHandler, line 352: the reply that opens the data phase
dataBegin(c) == send(c, 354, "Start mail input; end with <CRLF>.<CRLF>")

\* a data phase that keeps the leading period
unstuffKeepsDot(lineBuf) == lineBuf

\* dataHandler, lines 393-395: remove the leading period of a payload line
unstuff(lineBuf) ==
  IF Len(lineBuf) > 0 /\ lineBuf[1] = "." THEN Tail(lineBuf) ELSE lineBuf

\* the line ends the message, line 366
isTerminator(lineBuf) == lineBuf = <<".", "\r", "\n">> \/ lineBuf = <<".", "\n">>

\* Session.dataHandler, lines 366-402: one line read in the data phase
dataLine(c, lineBuf, failAt) ==
  LET unstuffed == unstuff(lineBuf)
      c1 == [c EXCEPT !.msgBuf = @ \o unstuffed]
  IN  IF isTerminator(lineBuf)
        THEN deliverLoop(c, 1, failAt)
      ELSE IF overMaxSize(c1.msgBuf)
        THEN leaveData(reset(send(c1, 552, "Maximum message size exceeded")))
      ELSE c1

\* a data phase that reads on after a read error
dataReadErrorReadsOn(c, err) == c

\* Session.dataHandler, lines 356-365: readByteLine returned an error
dataReadError(c, err) ==
  leaveData(enterState(
    IF err = "timeout" THEN send(c, 221, "Idle timeout, bye bye") ELSE c,
    "QUIT"))

(***************************************************************************)
(* The steps of a worker                                                   *)
(***************************************************************************)
\* the record of a step of worker w: what it read (a line or an error), what
\* the policy answered, the session, buffer and counter it started from,
\* whether the client was inside a payload, the
\* replies it sent, the Deliver calls it made and the receipts it counted
Event(w, kind, line, err, c) ==
  [w |-> w, kind |-> kind, line |-> line, err |-> err, pol |-> c.asked,
   pre |-> IF w \in Workers THEN sess[w] ELSE NewSession,
   buf |-> IF w \in Workers THEN msgBuf[w] ELSE <<>>,
   total |-> expReceivedTotal,
   inPayload |-> IF w \in Workers THEN payload[w] ELSE FALSE,
   out |-> c.out, delivers |-> c.delivers, received |-> c.received]

NoCtx == Ctx(NewSession, <<>>, <<>>)

\* the policy answers only for the address of a MAIL or RCPT command; that
\* of the concurrent scenario accepts and stores every address
PolicyInputs(sc, line) ==
  IF sc # "single" THEN {"store"}
  ELSE IF parseCmd(line).cmd \in {MAILc, RCPT} THEN PolicyOutcomes
  ELSE {"err"}

\* a loop that goes on in state QUIT
loopGuardIgnoresQuit(s) == s.sendError = "nil"

\* the for condition of the command loop, line 125
loopGuard(s) == s.state # "QUIT" /\ s.sendError = "nil"

\* the listener accepts a connection and starts its worker
Accept(w) ==
  /\ pc[w] = "idle"
  /\ w \in Conns(cfg)
  /\ pc' = [pc EXCEPT ![w] = "spawned"]
  /\ waitgroup' = waitgroup + 1
  /\ ev' = Event(w, "accept", <<>>, "", NoCtx)
  /\ UNCHANGED <<payload, cfg, sess, msgBuf, expConnectsCurrent, expReceivedTotal,
                 closes, dones, decs>>

\* Server.startSession, lines 111-122
StartSession(w) ==
  /\ pc[w] = "spawned"
  /\ \E net \in NetOutcomes(1) :
       LET c == greet(Ctx(NewSession, net, <<>>))
       IN  /\ sess' = [sess EXCEPT ![w] = c.ss]
           /\ ev' = Event(w, "start", <<>>, "", c)
  /\ expConnectsCurrent' = expConnectsCurrent + 1
  /\ pc' = [pc EXCEPT ![w] = "loop"]
  /\ UNCHANGED <<payload, cfg, msgBuf, waitgroup, expReceivedTotal, closes, dones, decs>>

\* the command loop ends at its for condition
LoopExit(w) ==
  /\ pc[w] = "loop"
  /\ ~loopGuard(sess[w])
  /\ pc' = [pc EXCEPT ![w] = "closing"]
  /\ ev' = Event(w, "exit", <<>>, "", NoCtx)
  /\ UNCHANGED <<payload, cfg, sess, msgBuf, waitgroup, expConnectsCurrent,
                 expReceivedTotal, closes, dones, decs>>

\* the command loop calls dataHandler, which sends 354 and starts reading
DataBegin(w) ==
  /\ pc[w] = "loop"
  /\ loopGuard(sess[w])
  /\ sess[w].state = "DATA"
  /\ \E net \in NetOutcomes(1) :
       LET c == dataBegin(Ctx(sess[w], net, <<>>))
       IN  /\ sess' = [sess EXCEPT ![w] = c.ss]
           /\ msgBuf' = [msgBuf EXCEPT ![w] = c.msgBuf]
           /\ ev' = Event(w, "databegin", <<>>, "", c)
  /\ pc' = [pc EXCEPT ![w] = "data"]
  /\ payload' = [payload EXCEPT ![w] = TRUE]
  /\ UNCHANGED <<cfg, waitgroup, expConnectsCurrent, expReceivedTotal,
                 closes, dones, decs>>

\* the command loop reads a line and handles it; a client that is inside a
\* payload sends its next payload line, whoever reads it
ReadCommand(w) ==
  /\ pc[w] = "loop"
  /\ loopGuard(sess[w])
  /\ sess[w].state # "DATA"
  /\ \E line \in ClientLines(cfg, w, payload[w]) :
     \E pol \in PolicyInputs(cfg, line) :
     \E net \in NetOutcomes(Len(commandStep(Ctx(sess[w], AllOk, <<>>), line, pol).out)) :
       LET c == commandStep(Ctx(sess[w], net, <<>>), line, pol)
       IN  /\ sess' = [sess EXCEPT ![w] = c.ss]
           /\ pc' = [pc EXCEPT ![w] = IF c.brk THEN "closing" ELSE "loop"]
           /\ payload' = [payload EXCEPT ![w] = @ /\ ~endsPayload(line)]
           /\ ev' = Event(w, "cmd", line, "", c)
  /\ UNCHANGED <<cfg, msgBuf, waitgroup, expConnectsCurrent, expReceivedTotal,
                 closes, dones, decs>>

\* the command loop's read fails
ReadCommandError(w) ==
  /\ pc[w] = "loop"
  /\ loopGuard(sess[w])
  /\ sess[w].state # "DATA"
  /\ \E err \in ReadErrors, net \in NetOutcomes(1) :
       LET c == readError(Ctx(sess[w], net, <<>>), err)
       IN  /\ sess' = [sess EXCEPT ![w] = c.ss]
           /\ pc' = [pc EXCEPT ![w] = IF c.brk THEN "closing" ELSE "loop"]
           /\ ev' = Event(w, "readerr", <<>>, err, c)
  /\ UNCHANGED <<payload, cfg, msgBuf, waitgroup, expConnectsCurrent, expReceivedTotal,
                 closes, dones, decs>>

\* dataHandler reads a line and handles it
DataRead(w) ==
  /\ pc[w] = "data"
  /\ \E lineBuf \in ClientData(cfg, w), failAt \in 0..maxRecips, net \in NetOutcomes(1) :
       LET c == dataLine(Ctx(sess[w], net, msgBuf[w]), lineBuf, failAt)
       IN  /\ expReceivedTotal + c.received <= MaxReceivedTotal
           /\ sess' = [sess EXCEPT ![w] = c.ss]
           /\ msgBuf' = [msgBuf EXCEPT ![w] = IF c.inData THEN c.msgBuf ELSE <<>>]
           /\ pc' = [pc EXCEPT ![w] = IF c.inData THEN "data" ELSE "loop"]
           /\ expReceivedTotal' = expReceivedTotal + c.received
           /\ payload' = [payload EXCEPT ![w] = ~endsPayload(lineBuf)]
           /\ ev' = Event(w, IF c.inData THEN "dataline" ELSE "dataend",
                          lineBuf, "", c)
  /\ UNCHANGED <<cfg, waitgroup, expConnectsCurrent, closes, dones, decs>>

\* dataHandler's read fails
DataReadError(w) ==
  /\ pc[w] = "data"
  /\ \E err \in ReadErrors, net \in NetOutcomes(1) :
       LET c == dataReadError(Ctx(sess[w], net, msgBuf[w]), err)
       IN  /\ sess' = [sess EXCEPT ![w] = c.ss]
           /\ msgBuf' = [msgBuf EXCEPT ![w] = <<>>]
           /\ pc' = [pc EXCEPT ![w] = IF c.inData THEN "data" ELSE "loop"]
           /\ payload' = [payload EXCEPT ![w] = FALSE]
           /\ ev' = Event(w, "dataerr", <<>>, err, c)
  /\ UNCHANGED <<cfg, waitgroup, expConnectsCurrent, expReceivedTotal,
                 closes, dones, decs>>

\* the deferred function of startSession, line 114
ConnClose(w) ==
  /\ pc[w] = "closing"
  /\ closes' = [closes EXCEPT ![w] = @ + 1]
  /\ pc' = [pc EXCEPT ![w] = "wgdone"]
  /\ ev' = Event(w, "close", <<>>, "", NoCtx)
  /\ UNCHANGED <<payload, cfg, sess, msgBuf, waitgroup, expConnectsCurrent,
                 expReceivedTotal, dones, decs>>

\* the deferred function of startSession, line 117
WaitgroupDone(w) ==
  /\ pc[w] = "wgdone"
  /\ waitgroup' = waitgroup - 1
  /\ dones' = [dones EXCEPT ![w] = @ + 1]
  /\ pc' = [pc EXCEPT ![w] = "gaugedec"]
  /\ ev' = Event(w, "done", <<>>, "", NoCtx)
  /\ UNCHANGED <<payload, cfg, sess, msgBuf, expConnectsCurrent, expReceivedTotal,
                 closes, decs>>

\* the gauge decremented at the end of the loop's clean exit only, not deferred
GaugeDecOnCleanExit(w) ==
  /\ pc[w] = "gaugedec"
  /\ expConnectsCurrent' =
       IF sess[w].sendError = "nil" THEN expConnectsCurrent - 1 ELSE expConnectsCurrent
  /\ decs' = [decs EXCEPT ![w] = IF sess[w].sendError = "nil" THEN @ + 1 ELSE @]
  /\ pc' = [pc EXCEPT ![w] = "returned"]
  /\ ev' = Event(w, "gauge", <<>>, "", NoCtx)
  /\ UNCHANGED <<payload, cfg, sess, msgBuf, waitgroup, expReceivedTotal, closes, dones>>

\* the deferred function of startSession, line 118; the worker returns
GaugeDec(w) ==
  /\ pc[w] = "gaugedec"
  /\ expConnectsCurrent' = expConnectsCurrent - 1
  /\ decs' = [decs EXCEPT ![w] = @ + 1]
  /\ pc' = [pc EXCEPT ![w] = "returned"]
  /\ ev' = Event(w, "gauge", <<>>, "", NoCtx)
  /\ UNCHANGED <<payload, cfg, sess, msgBuf, waitgroup, expReceivedTotal, closes, dones>>

InitState ==
  /\ pc = [w \in Workers |-> "idle"]
  /\ sess = [w \in Workers |-> NewSession]
  /\ msgBuf = [w \in Workers |-> <<>>]
  /\ waitgroup = 0
  /\ expConnectsCurrent = 0
  /\ expReceivedTotal = 0
  /\ closes = [w \in Workers |-> 0]
  /\ dones = [w \in Workers |-> 0]
  /\ decs = [w \in Workers |-> 0]
  /\ payload = [w \in Workers |-> FALSE]
  /\ ev = Event(0, "init", <<>>, "", NoCtx)

\* one connection, whose client may send every line of the catalogue
Init ==
  /\ cfg = "single"
  /\ InitState

\* every connection: the first client keeps to the plain dialogue, the others
\* only leave
InitConc ==
  /\ cfg = "conc"
  /\ InitState

\* one connection, whose client keeps to the plain dialogue and may stop
\* sending at any point
InitLive ==
  /\ cfg = "live"
  /\ InitState

Next ==
  \E w \in Workers :
    \/ Accept(w)
    \/ StartSession(w)
    \/ LoopExit(w)
    \/ DataBegin(w)
    \/ ReadCommand(w)
    \/ ReadCommandError(w)
    \/ DataRead(w)
    \/ DataReadError(w)
    \/ ConnClose(w)
    \/ WaitgroupDone(w)
    \/ GaugeDec(w)

Spec == Init /\ [][Next]_vars

SpecConc == InitConc /\ [][Next]_vars

\* the steps of worker w that wait for nothing: they run when scheduled
Runs(w) ==
  \/ StartSession(w)
  \/ LoopExit(w)
  \/ DataBegin(w)
  \/ ConnClose(w)
  \/ WaitgroupDone(w)
  \/ GaugeDec(w)

\* the steps of worker w that end a blocking read: with a line, or with an
\* error, at the latest when the read deadline passes
Reads(w) ==
  \/ ReadCommand(w)
  \/ ReadCommandError(w)
  \/ DataRead(w)
  \/ DataReadError(w)

\* a worker that can run does, and a read it waits in returns
Fairness == \A w \in Workers : WF_vars(Runs(w)) /\ WF_vars(Reads(w))

SpecLive == InitLive /\ [][Next]_vars /\ Fairness

(***************************************************************************)
(* Properties                                                              *)
(***************************************************************************)
\* the reply codes of a step, in the order sent
Codes(out) == [i \in DOMAIN out |-> out[i].code]

\* the last step read a line of the data phase that ends the message
ReadTerminator == ev.kind = "dataend" /\ ev.line \in {DataEnd, DataEndLF}

\* the session fields a client can observe, without sendError
Core(s) == <<s.state, s.from, s.recipients, s.remoteDomain>>

\* the indices of the recipients of r that are to be stored, in order
StoredIdx(r) == SelectSeq([i \in DOMAIN r |-> i], LAMBDA i : r[i].store)

\* C1: in every reachable state of every session, state MAIL or DATA implies a
\* non-empty from, and state DATA implies at least one recipient.
C1_EnvelopeInvariant ==
  \A w \in Workers :
    /\ sess[w].state \in {"MAIL", "DATA"} => sess[w].from # <<>>
    /\ sess[w].state = "DATA" => Len(sess[w].recipients) >= 1

\* C1 witness: a session is reading the payload of a message, some of it read.
C1_Witness ==
  \E w \in Workers :
    /\ pc[w] = "data"
    /\ sess[w].state = "DATA"
    /\ msgBuf[w] # <<>>
    /\ Len(sess[w].recipients) = maxRecips

\* C2: once a send has failed the session attempts no further send, reads no
\* further input and delivers no message.
C2_NoActivityAfterSendError ==
  /\ \A i \in DOMAIN ev.out : ev.out[i].prior = "nil"
  /\ ev.kind \in {"cmd", "readerr", "dataline", "dataend", "dataerr"}
       => ev.pre.sendError = "nil"
  /\ ev.delivers # <<>> => ev.pre.sendError = "nil"

\* C3: every command line read in GREET, READY or MAIL is answered in the
\* step that read it, before the next read; an accepted DATA command is
\* answered by the 354 that opens the data phase, sent before any payload line
\* is read; no payload line is answered; a data phase that ends without a
\* read error ends with exactly one reply, 250, 451 or 552.
C3_RepliesBeforeNextRead ==
  /\ ev.kind = "cmd" =>
       IF sess[ev.w].state = "DATA"
         THEN ev.out = <<>> /\ pc[ev.w] = "loop"
         ELSE Len(ev.out) >= 1
  /\ ev.kind = "databegin" => Codes(ev.out) = <<354>> /\ ev.pre.state = "DATA"
  /\ \A w \in Workers :
       pc[w] = "data" /\ ev.w = w => ev.kind \in {"databegin", "dataline"}
  /\ ev.kind = "dataline" => ev.out = <<>>
  /\ ev.kind = "dataend" =>
       Len(ev.out) = 1 /\ ev.out[1].code \in {250, 451, 552}

\* C3 witness: a command in the MAIL state was answered 503.
C3_Witness ==
  /\ ev.kind = "cmd"
  /\ ev.pre.state = "MAIL"
  /\ Codes(ev.out) = <<503>>

\* C4: at the terminator Deliver is called only for recipients to be stored,
\* in the order of their RCPT commands, each call with the session's from,
\* recipients and body; the first call that fails is the last call and is
\* answered 451; 250 is sent only when every stored recipient was delivered
\* to without failure.
C4_DeliverInOrder ==
  ReadTerminator =>
    LET r == ev.pre.recipients
        stored == StoredIdx(r)
        d == ev.delivers
    IN  /\ Len(d) <= Len(stored)
        /\ \A k \in DOMAIN d :
             /\ d[k].recip = r[stored[k]]
             /\ d[k].recip.store
             /\ d[k].from = ev.pre.from
             /\ d[k].recipients = r
             /\ d[k].body = ev.buf
             /\ k < Len(d) => d[k].ok
        /\ IF d # <<>> /\ ~d[Len(d)].ok
             THEN Codes(ev.out) = <<451>>
             ELSE Codes(ev.out) = <<250>> /\ Len(d) = Len(stored)

\* C4 witness: two recipients to be stored, the first delivered to, the
\* second failing.
C4_Witness ==
  /\ ReadTerminator
  /\ Len(ev.delivers) = 2
  /\ ev.delivers[1].ok
  /\ ~ev.delivers[2].ok
  /\ ev.delivers[1].recip.id = 1
  /\ ev.delivers[2].recip.id = 2
  /\ Codes(ev.out) = <<451>>

\* a RCPT command of valid syntax whose address the policy accepted
ValidRcpt == ev.kind = "cmd" /\ ev.line \in {LineRcpt, LineRcptLower} /\ ev.pol # "err"

\* C5: no session ever holds more than maxRecips recipients; in MAIL a valid
\* RCPT is answered 250 and appended while fewer than maxRecips are held, and
\* is answered 552, leaving recipients and state unchanged, when maxRecips
\* are held.
C5_RecipientLimit ==
  /\ \A w \in Workers : Len(sess[w].recipients) <= maxRecips
  /\ ValidRcpt /\ ev.pre.state = "MAIL" =>
       IF Len(ev.pre.recipients) < maxRecips
         THEN /\ Codes(ev.out) = <<250>>
              /\ Len(sess[ev.w].recipients) = Len(ev.pre.recipients) + 1
              /\ SubSeq(sess[ev.w].recipients, 1, Len(ev.pre.recipients))
                   = ev.pre.recipients
              /\ sess[ev.w].state = "MAIL"
         ELSE /\ Codes(ev.out) = <<552>>
              /\ sess[ev.w].recipients = ev.pre.recipients
              /\ sess[ev.w].state = "MAIL"

\* C5 witness: a valid RCPT arrived with maxRecips recipients held.
C5_Witness ==
  /\ ValidRcpt
  /\ ev.pre.state = "MAIL"
  /\ Len(ev.pre.recipients) = maxRecips
  /\ Codes(ev.out) = <<552>>

\* the bytes a payload line adds to the body: the line without the dot that
\* the client prepended
Unstuffed(line) == IF line = DataDotDot THEN <<".", "\r", "\n">> ELSE line

\* C6: a payload line that keeps the body within maxMessageBytes is taken
\* into the buffer; the line that takes it over is answered 552 with no
\* Deliver call and the session is back in READY with from and recipients
\* cleared; a terminator after a body of at most maxMessageBytes is answered
\* 250 or 451 after Deliver has been called for the first recipient to store.
C6_SizeLimit ==
  /\ \A w \in Workers : Len(msgBuf[w]) <= maxMessageBytes
  /\ ev.kind \in {"dataline", "dataend"} /\ ~ReadTerminator =>
       LET body == ev.buf \o Unstuffed(ev.line)
       IN  IF Len(body) <= maxMessageBytes
             THEN /\ ev.kind = "dataline"
                  /\ msgBuf[ev.w] = body
                  /\ sess[ev.w].state = "DATA"
             ELSE /\ ev.kind = "dataend"
                  /\ Codes(ev.out) = <<552>>
                  /\ ev.delivers = <<>>
                  /\ ev.received = 0
                  /\ sess[ev.w].state = "READY"
                  /\ sess[ev.w].from = <<>>
                  /\ sess[ev.w].recipients = <<>>
  /\ ReadTerminator =>
       /\ Len(ev.buf) <= maxMessageBytes
       /\ Codes(ev.out) \in {<<250>>, <<451>>}
       /\ StoredIdx(ev.pre.recipients) # <<>> =>
            ev.delivers # <<>> /\ ev.delivers[1].body = ev.buf

\* C6 witness: a body of exactly maxMessageBytes was accepted and delivered.
C6_Witness ==
  /\ ReadTerminator
  /\ Len(ev.buf) = maxMessageBytes
  /\ Codes(ev.out) = <<250>>
  /\ ev.delivers # <<>>

C8_ReadErrorReplies ==
  ev.kind \in {"readerr", "dataerr"} =>
    /\ IF ev.err = "EOF" THEN ev.out = <<>> ELSE Codes(ev.out) = <<221>>
    /\ pc[ev.w] = "closing" \/ ~loopGuard(sess[ev.w])

\* the workers that have started and not yet returned
Live == { w \in Workers : pc[w] \in {"loop", "data", "closing", "wgdone", "gaugedec"} }

\* C9: for any interleaving of the workers, a worker closes its socket, calls
\* waitgroup.Done and decrements the gauge once each, on its way out and not
\* before, whatever ended its loop; the gauge counts the workers that have
\* started and not returned, and is back at its initial value when every
\* worker has returned.
C9_Accounting ==
  /\ \A w \in Workers :
       /\ closes[w] = IF pc[w] \in {"wgdone", "gaugedec", "returned"} THEN 1 ELSE 0
       /\ dones[w] = IF pc[w] \in {"gaugedec", "returned"} THEN 1 ELSE 0
       /\ decs[w] = IF pc[w] = "returned" THEN 1 ELSE 0
  /\ expConnectsCurrent = Cardinality(Live)
  /\ (\A w \in Workers : pc[w] \in {"idle", "returned"}) => expConnectsCurrent = 0

\* C9 witness: every worker has returned, one after a failed read in the data
\* phase, another after a failed send.
C9_Witness ==
  /\ \A w \in Workers : pc[w] = "returned"
  /\ \E w \in Workers : sess[w].state = "QUIT" /\ sess[w].recipients # <<>>
  /\ \E w \in Workers : sess[w].sendError # "nil" /\ sess[w].state = "GREET"

\* C10 as stated: at the terminator the received-total counter rises by the
\* number of recipients for which Deliver was called and succeeded.
C10_CountsDelivered ==
  ReadTerminator =>
    /\ ev.received = Cardinality({ k \in DOMAIN ev.delivers : ev.delivers[k].ok })
    /\ expReceivedTotal = ev.total + ev.received

\* C10 as amended: at the terminator the received-total counter rises by the
\* number of recipients the loop passed without a failed Deliver: all of
\* them when no Deliver fails, those before the failing one otherwise,
\* whether they are to be stored or not.
C10_CountsPassedRecipients ==
  ReadTerminator =>
    LET d == ev.delivers
        failed == d # <<>> /\ ~d[Len(d)].ok
    IN  /\ ev.received = IF failed THEN d[Len(d)].recip.id - 1
                         ELSE Len(ev.pre.recipients)
        /\ expReceivedTotal = ev.total + ev.received

\* C10 witness: a message for a recipient to store and one to discard was
\* accepted, and the counter rose by two.
C10_Witness ==
  /\ ReadTerminator
  /\ Len(ev.pre.recipients) = 2
  /\ Len(ev.delivers) = 1
  /\ ev.delivers[1].ok
  /\ Codes(ev.out) = <<250>>
  /\ expReceivedTotal = ev.total + 2

\* the verb of the command line the last step read
EvCmd == parseCmd(ev.line).cmd

\* the last step was a step of a worker
WorkerStep == ev.w \in Workers

\* C11: a session in READY, MAIL or DATA has processed a HELO or EHLO
\* successfully: its remoteDomain is not empty.
C11_ReadyImpliesHelo ==
  \A w \in Workers :
    sess[w].state \in {"READY", "MAIL", "DATA"} => sess[w].remoteDomain # <<>>

\* C12: QUIT read in GREET, READY or MAIL is answered with the one reply 221
\* Goodnight and good luck and moves the session to QUIT; a session in state
\* QUIT reads no line, sends no reply and does not change: its worker only
\* leaves the loop and runs its deferred calls.
C12_QuitTerminal ==
  /\ ev.kind = "cmd" /\ EvCmd = QUITc =>
       /\ ev.pre.state \in {"GREET", "READY", "MAIL"}
       /\ Codes(ev.out) = <<221>>
       /\ ev.out[1].text = "Goodnight and good luck"
       /\ sess[ev.w].state = "QUIT"
       /\ sess[ev.w].from = ev.pre.from
       /\ sess[ev.w].recipients = ev.pre.recipients
  /\ WorkerStep /\ ev.pre.state = "QUIT" =>
       /\ ev.kind \in {"exit", "close", "done", "gauge"}
       /\ ev.out = <<>>
       /\ sess[ev.w] = ev.pre
  /\ \A w \in Workers :
       sess[w].state = "QUIT" => pc[w] \in {"loop", "closing", "wgdone", "gaugedec", "returned"}

\* C12 witness: a session that was sent QUIT in MAIL has returned in state
\* QUIT, its 221 written.
C12_Witness ==
  \E w \in Workers :
    /\ pc[w] = "returned"
    /\ sess[w].state = "QUIT"
    /\ sess[w].sendError = "nil"
    /\ sess[w].from # <<>>
    /\ sess[w].recipients = <<>>

\* the lines of the bodies a client may mean to send
BodyLines ==
  {DataText, <<".","\r","\n">>, <<".","a","\n">>, <<".",".","\n">>, <<"\n">>}

\* the largest number of lines of such a body
MaxBodyLines == 2

\* the bodies: sequences of lines, each ending in a newline
Bodies == UNION { [1..n -> BodyLines] : n \in 0..MaxBodyLines }

\* the bytes of a body
RECURSIVE Flatten(_)
Flatten(B) == IF B = <<>> THEN <<>> ELSE Head(B) \o Flatten(Tail(B))

\* what the client does to a line of its body: one more period in front of a
\* line that begins with one
Stuff(line) == IF line # <<>> /\ line[1] = "." THEN <<".">> \o line ELSE line

\* the data phase fed the lines in order, every Deliver succeeding
RECURSIVE Replay(_, _)
Replay(c, lines) ==
  IF lines = <<>> \/ ~c.inData THEN c
  ELSE Replay(dataLine(c, Head(lines), 0), Tail(lines))

\* C13: from every session that enters the data phase, for every body B of
\* at most maxMessageBytes, the lines of B sent dot-stuffed and followed by
\* the terminator, with CRLF or with a bare LF, end in 250 with B passed to
\* Deliver for every recipient to store; each stuffed line read adds its
\* body line to the buffer, and the terminator adds nothing.
C13_DotUnstuffRoundTrip ==
  /\ \A w \in Workers :
       pc[w] = "data" /\ msgBuf[w] = <<>> =>
         \A B \in Bodies, t \in {DataEnd, DataEndLF} :
           Len(Flatten(B)) <= maxMessageBytes =>
             LET c == Replay(Ctx(sess[w], AllOk, <<>>),
                             [i \in DOMAIN B |-> Stuff(B[i])] \o <<t>>)
             IN  /\ ~c.inData
                 /\ Codes(c.out) = <<250>>
                 /\ Len(c.delivers) = Len(StoredIdx(sess[w].recipients))
                 /\ \A k \in DOMAIN c.delivers : c.delivers[k].body = Flatten(B)
  /\ ev.kind = "dataline" =>
       \A x \in BodyLines : Stuff(x) = ev.line => msgBuf[ev.w] = ev.buf \o x
  /\ ReadTerminator =>
       \A k \in DOMAIN ev.delivers : ev.delivers[k].body = ev.buf

\* C13 witness: a body that is the one line "." was sent stuffed, ended with
\* a bare LF terminator and delivered.
C13_Witness ==
  /\ ReadTerminator
  /\ ev.line = DataEndLF
  /\ ev.buf = <<".","\r","\n">>
  /\ ev.delivers # <<>>
  /\ ev.delivers[1].body = <<".","\r","\n">>
  /\ Codes(ev.out) = <<250>>

\* a MAIL command with a SIZE parameter arrived in READY with a sender the
\* policy accepts
SizedMail(line) ==
  ev.kind = "cmd" /\ ev.line = line /\ ev.pre.state = "READY" /\ ev.pol \notin {"", "err"}

\* the MAIL was answered 250 and the session is in MAIL with the sender kept
MailAccepted ==
  /\ Codes(ev.out) = <<250>>
  /\ sess[ev.w].state = "MAIL"
  /\ sess[ev.w].from = <<"a","@","b">>

\* the MAIL was answered with the code and the session is as it was
MailRejected(code) ==
  /\ Codes(ev.out) = <<code>>
  /\ sess[ev.w].state = "READY"
  /\ sess[ev.w].from = <<>>

\* C14 as stated: SIZE=n is accepted when n <= maxMessageBytes and answered
\* 552 when n > maxMessageBytes, whatever n.
C14_SizeAnySize ==
  /\ SizedMail(LineMailSizeMax) => MailAccepted
  /\ \A line \in {LineMailSizeOver, LineMailSizeInt32, LineMailSizeHuge} :
       SizedMail(line) => MailRejected(552)

\* C14 as the code has it: SIZE=n is accepted when n <= maxMessageBytes,
\* answered 552 when maxMessageBytes < n <= 2^31 - 1, and answered 501 when
\* n > 2^31 - 1; a rejected MAIL leaves from empty and the state READY.
C14_SizeWithin32Bits ==
  /\ SizedMail(LineMailSizeMax) => MailAccepted
  /\ SizedMail(LineMailSizeOver) => MailRejected(552)
  /\ SizedMail(LineMailSizeInt32) => MailRejected(552)
  /\ SizedMail(LineMailSizeHuge) =>
       MailRejected(501) /\ ev.out[1].text = "Unable to parse SIZE as an integer"

\* C14 within the 32-bit range: SIZE one over the limit was answered 552.
C14_OverLimitRejected ==
  /\ SizedMail(LineMailSizeOver)
  /\ MailRejected(552)
  /\ ev.out[1].text = "Max message size exceeded"

\* the last step sent the one reply code and left the session's state, from,
\* recipients and remoteDomain as they were
Kept(code) == Codes(ev.out) = <<code>> /\ Core(sess[ev.w]) = Core(ev.pre)

\* the last step read the line as a command in GREET, READY or MAIL
ReadIn(lines, states) ==
  ev.kind = "cmd" /\ ev.line \in lines /\ ev.pre.state \in states

\* C16: in GREET, READY and MAIL, NOOP is answered 250, VRFY 252, SEND, SOML,
\* SAML, EXPN, HELP and TURN 502, an unknown verb, an empty line and a
\* malformed line 500, each with one reply and with state, from, recipients
\* and remoteDomain unchanged, whatever the state's handler would do.
C16_StatelessCommands ==
  LET any == {"GREET", "READY", "MAIL"}
  IN  /\ ReadIn({LineNoop}, any) => Kept(250)
      /\ ReadIn({LineVrfy}, any) => Kept(252)
      /\ ReadIn({LineSend, LineSoml, LineSaml, LineExpn, LineHelp, LineTurn}, any)
           => Kept(502)
      /\ ReadIn({LineUnknown, LineEmpty, LineShort}, any) => Kept(500)
      /\ ReadIn(DataLines, any) => Kept(500)
      /\ ev.kind = "cmd" /\ (~parseCmd(ev.line).ok \/ EvCmd \notin commands)
           => Kept(500)

\* C16 witness: HELP arrived in MAIL with a recipient held and was answered
\* 502.
C16_Witness ==
  /\ ReadIn({LineHelp}, {"MAIL"})
  /\ ev.pre.recipients # <<>>
  /\ Kept(502)

\* the last step read a command that its state's handler does not take: MAIL,
\* RCPT or DATA in GREET, HELO, EHLO, RCPT or DATA in READY, HELO, EHLO or MAIL
\* in MAIL, DATA in MAIL with no recipient (with an argument too if withArg)
OutOfSequence(withArg) ==
  LET p == parseCmd(ev.line)
      s == ev.pre.state
  IN  /\ ev.kind = "cmd"
      /\ p.ok
      /\ \/ s = "GREET" /\ p.cmd \in {MAILc, RCPT, DATAc}
         \/ s = "READY" /\ p.cmd \in {HELO, EHLO, RCPT, DATAc}
         \/ s = "MAIL" /\ p.cmd \in {HELO, EHLO, MAILc}
         \/ /\ s = "MAIL"
            /\ p.cmd = DATAc
            /\ ev.pre.recipients = <<>>
            /\ withArg \/ p.arg = <<>>

\* the last step answered 503 once, changed nothing, and the session goes on
\* if the reply was written
Refused503 ==
  /\ Kept(503)
  /\ ev.out[1].text = "Command %v is out of sequence"
  /\ ev.out[1].res = "ok" => pc[ev.w] = "loop" /\ loopGuard(sess[ev.w])

\* C17 as stated: a command out of sequence for its state, DATA in MAIL with
\* no recipient included, is answered with one 503 and changes nothing.
C17_OutOfSequence == OutOfSequence(TRUE) => Refused503

\* C17 as amended: the same, with DATA in MAIL with no recipient out of
\* sequence only when it has no argument; with an argument it is answered 501.
C17_OutOfSequenceNoArgument ==
  /\ OutOfSequence(FALSE) => Refused503
  /\ ReadIn({LineDataArg}, {"MAIL"}) => Kept(501)

\* C17 witness: DATA arrived in MAIL with no recipient and was answered 503.
C17_Witness ==
  /\ ReadIn({LineData}, {"MAIL"})
  /\ ev.pre.recipients = <<>>
  /\ Refused503
  /\ sess[ev.w].state = "MAIL"

\* C18 as stated: in READY a MAIL line whose address is followed by a
\* trailing space and no KEY=VALUE token is answered 501 and leaves the
\* session in READY with from empty.
C18_TrailingSpaceRejected ==
  ReadIn({LineMailTrail}, {"READY"}) => MailRejected(501)

\* C18 as amended: parseCmd trims the spaces at the end of the argument, so in
\* READY a MAIL line whose address is followed by spaces only is handled as
\* the line without them, accepted with 250 when the sender is valid; an
\* address followed by a space and a token that is no KEY=VALUE is answered
\* 501 and leaves the session in READY with from empty.
C18_TrailingSpaceTrimmed ==
  /\ parseCmd(LineMailTrail).arg = parseCmd(LineMail).arg
  /\ ReadIn({LineMailTrail}, {"READY"}) =>
       IF ev.pol = "err" THEN MailRejected(501) ELSE MailAccepted
  /\ ReadIn({LineMailWord}, {"READY"}) =>
       /\ MailRejected(501)
       /\ ev.pol # "err" => ev.out[1].text = "Unable to parse MAIL ESMTP parameters"

\* C18 witness: a MAIL line with a trailing space and a valid sender arrived
\* in READY and was accepted.
C18_Witness ==
  /\ SizedMail(LineMailTrail)
  /\ MailAccepted

\* C19: a session that has left GREET is never in GREET again; a remoteDomain
\* that is set never changes; remoteDomain changes only by HELO or EHLO read
\* in GREET, which leaves GREET.
C19_GreetOnceDomainOnce ==
  WorkerStep =>
    /\ ev.pre.state # "GREET" => sess[ev.w].state # "GREET"
    /\ ev.pre.remoteDomain # <<>> => sess[ev.w].remoteDomain = ev.pre.remoteDomain
    /\ sess[ev.w].remoteDomain # ev.pre.remoteDomain =>
         /\ ev.kind = "cmd"
         /\ ev.pre.state = "GREET"
         /\ EvCmd \in {HELO, EHLO}
         /\ sess[ev.w].state = "READY"

\* C19 witness: after a message was accepted, a HELO with another domain
\* arrived and the domain of the first HELO stayed.
C19_Witness ==
  /\ ReadIn({LineHeloOther}, {"READY", "MAIL"})
  /\ ev.pre.remoteDomain = <<"a">>
  /\ sess[ev.w].remoteDomain = <<"a">>
  /\ expReceivedTotal >= 1
  /\ Codes(ev.out) = <<503>>

\* C20: a line the client sends inside its payload, after the 354 and before
\* its terminator, is never read by the command loop.
C20_PayloadNeverParsed == ev.kind = "cmd" => ~ev.inPayload

\* a step in which no read returns a line
NoLineRead == ev'.kind \notin {"cmd", "dataline", "dataend"}

\* C15: if from some point on no read returns a line, every worker that was
\* started returns, whatever state its session was in, the data phase
\* included.
C15_Termination ==
  (<>[][NoLineRead]_vars) =>
    \A w \in Workers : <>[](pc[w] \in {"idle", "returned"})

\* C15 witness: a worker has returned from a session whose read failed in the
\* data phase.
C15_Witness ==
  \E w \in Workers :
    /\ pc[w] = "returned"
    /\ sess[w].state = "QUIT"
    /\ sess[w].recipients # <<>>
    /\ ev.kind = "gauge"

=============================================================================
